---- MODULE Spec2Model ----
(***************************************************************************)
(* Monte Carlo Tree Search of P2/src/mcts_modified.py ("modified") and     *)
(* P2/src/mcts_vanilla.py ("vanilla"): think() and the four phases it      *)
(* runs per iteration, over a small two-player alternating board.          *)
(*                                                                         *)
(* Numbers.  wins is kept in HALF points (a draw of the vanilla variant    *)
(* adds 0.5, i.e. one half point), so wins/visits is wins / (2 * visits).  *)
(* UCB scores and the blended score of get_best_action are kept in fixed   *)
(* point, Scale units per 1.0; the exploration terms are tabulated from    *)
(* the source's formulas.  For visits up to 8 the fixed-point order of    *)
(* any two sibling scores is the order of the Python floats.               *)
(***************************************************************************)
EXTENDS Integers, Sequences, FiniteSets

\* ------------------------------------------------------------------ bounds
\* largest simulation budget num_nodes that think is run with
MaxNodes == 6

\* ------------------------------------------------------- python constants
None == 0
Inf == 2000000000
NegInf == 0 - Inf
\* fixed-point unit: divisible by 2 * visits for every visits in 1..8
Scale == 1680 * 200000

\* ------------------------------------------------------------- the board
\* States "D", "E", "F", "I", "J", "K" are ended.  Players are 1 and 2 and
\* alternate strictly; actions are 11, 12, 13 (never equal to a player id).
Players == {1, 2}
BoardStates == {"A", "B", "C", "D", "E", "F", "G", "H", "I", "J", "K"}

legal_actions(s) ==
    CASE s = "A" -> <<11, 12, 13>>
      [] s = "B" -> <<11, 12, 13>>
      [] s = "C" -> <<11, 12>>
      [] s = "G" -> <<11, 12>>
      [] s = "H" -> <<11>>
      [] OTHER   -> <<>>

next_state(s, a) ==
    CASE s = "A" /\ a = 11 -> "B"
      [] s = "A" /\ a = 12 -> "C"
      [] s = "A" /\ a = 13 -> "D"
      [] s = "B" /\ a = 11 -> "E"
      [] s = "B" /\ a = 12 -> "F"
      [] s = "B" /\ a = 13 -> "G"
      [] s = "C" /\ a = 11 -> "H"
      [] s = "C" /\ a = 12 -> "G"
      [] s = "G" /\ a = 11 -> "I"
      [] s = "G" /\ a = 12 -> "J"
      [] s = "H" /\ a = 11 -> "K"

is_ended(s) == s \in {"D", "E", "F", "I", "J", "K"}

current_player(s) ==
    CASE s \in {"A", "G", "H", "E", "F"} -> 1
      [] s \in {"B", "C", "D", "I", "J", "K"} -> 2

\* score of each player at an ended state: 1 win, -1 loss, 0 draw
points_values(s) ==
    CASE s \in {"D", "J"} -> [p \in Players |-> IF p = 1 THEN 1 ELSE 0 - 1]
      [] s \in {"F", "I"} -> [p \in Players |-> IF p = 2 THEN 1 ELSE 0 - 1]
      [] s \in {"E", "K"} -> [p \in Players |-> 0]

\* ------------------------------------------------------------- variables
VARIABLES
    variant,          \* which file's functions run: "modified" or "vanilla"
    state,            \* think's argument
    num_nodes,        \* the simulation budget
    identity_of_bot,  \* think's local
    tree,             \* the MCTSNode objects, root_node is tree[1]
    node,             \* think's local: a node id
    current_state,    \* think's local
    final_state,      \* think's local
    iter,             \* iterations of the for loop completed
    pc,               \* think's position
    best_action,      \* think's return value
    started           \* history: started[n] = backpropagations begun at node n

vars == <<variant, state, num_nodes, identity_of_bot, tree, node,
          current_state, final_state, iter, pc, best_action, started>>

\* ------------------------------------------------------------- MCTSNode
MCTSNode(parent, parent_action, action_list) ==
    [parent |-> parent, parent_action |-> parent_action,
     child_nodes |-> <<>>, untried_actions |-> action_list,
     wins |-> 0, visits |-> 0]

root_node == 1

\* ------------------------------------------------------- python helpers
\* list.remove(x): drops the first occurrence of x
RECURSIVE ListRemove(_, _)
ListRemove(l, x) ==
    IF l = <<>> THEN <<>>
    ELSE IF Head(l) = x THEN Tail(l)
    ELSE <<Head(l)>> \o ListRemove(Tail(l), x)

\* d[k] = v on an insertion-ordered dict kept as a sequence of items
DictSet(d, k, v) ==
    IF \E i \in 1..Len(d) : d[i].action = k
    THEN [i \in 1..Len(d) |-> IF d[i].action = k
                              THEN [action |-> k, child |-> v] ELSE d[i]]
    ELSE Append(d, [action |-> k, child |-> v])

\* max(seq, key=...): index of the first element with the largest key
MaxFirst(keys) ==
    CHOOSE i \in 1..Len(keys) :
        /\ \A j \in 1..Len(keys) : keys[j] <= keys[i]
        /\ \A j \in 1..(i - 1) : keys[j] < keys[i]

\* ----------------------------------------------------------------- ucb
\* explore_factor * sqrt(log(parent.visits) / node.visits), explore_factor
\* 0.9, in Scale units: ExploreModified[parent.visits][node.visits]
ExploreModified ==
  << <<0, 0, 0, 0, 0, 0, 0, 0>>,
     <<251764514, 178024395, 145356310, 125882257, 112592514, 102782433, 95158042, 89012198>>,
     <<316959675, 224124336, 182996754, 158479838, 141748676, 129398246, 119799497, 112062168>>,
     <<356048791, 251764514, 205564865, 178024395, 159229860, 145356310, 134573794, 125882257>>,
     <<383635599, 271271334, 221492117, 191817800, 171567056, 156618578, 145000627, 135635667>>,
     <<404782419, 286224393, 233701238, 202391209, 181024201, 165251730, 152993374, 143112197>>,
     <<421835551, 298282779, 243546869, 210917776, 188650594, 172213643, 159438852, 149141389>>,
     <<436068931, 308347298, 251764514, 218034465, 195015954, 178024395, 164818564, 154173649>> >>

\* explore_faction * sqrt(2 * log(parent.visits) / node.visits),
\* explore_faction sqrt(2), in Scale units
ExploreVanilla ==
  << <<0, 0, 0, 0, 0, 0, 0, 0>>,
     <<559476699, 395609768, 323014023, 279738349, 250205586, 228405406, 211462316, 197804884>>,
     <<704354834, 498054079, 406659453, 352177417, 314997058, 287551657, 266221104, 249027040>>,
     <<791219535, 559476699, 456810812, 395609768, 353844133, 323014023, 299052875, 279738349>>,
     <<852523554, 602825186, 492204703, 426261777, 381260124, 348041284, 322223616, 301412593>>,
     <<899516486, 636054207, 519336085, 449758243, 402276002, 367226068, 339985275, 318027103>>,
     <<937412337, 662850620, 541215265, 468706168, 419223542, 382696984, 354308560, 331425310>>,
     <<969042068, 685216217, 559476699, 484521034, 433368787, 395609768, 366263474, 342608109>> >>

\* 0.1 * sqrt(child.visits) in Scale units
VisitBonus ==
  <<33600000, 47517576, 58196907, 67200000, 75131884, 82302855, 88897244, 95035151>>

\* node.wins / node.visits in Scale units (wins is in half points)
WinRate(n) == (Scale \div (2 * n.visits)) * n.wins

\* the test that decides "opponent's turn" in each variant's ucb
opponent_turn_modified(t, parent, identity) ==
    identity # t[parent].parent_action

opponent_turn_vanilla(t, parent, identity) ==
    t[parent].visits % 2 # identity - 1

ucb_modified(t, n, parent, identity) ==
    IF t[n].visits = 0 THEN Inf
    ELSE LET win_rate == WinRate(t[n])
             adjusted == IF opponent_turn_modified(t, parent, identity)
                         THEN Scale - win_rate ELSE win_rate
         IN  adjusted + ExploreModified[t[parent].visits][t[n].visits]

ucb_vanilla(t, n, parent, identity) ==
    IF t[n].visits = 0 THEN Inf
    ELSE LET win_rate == WinRate(t[n])
             adjusted == IF opponent_turn_vanilla(t, parent, identity)
                         THEN Scale - win_rate ELSE win_rate
         IN  adjusted + ExploreVanilla[t[parent].visits][t[n].visits]

\* ------------------------------------------------------- traverse_nodes
\* the walk of traverse_nodes, as the two slips below share it
RECURSIVE TraverseWalk(_, _, _, _)
TraverseWalk(t, n, s, identity) ==
    IF ~is_ended(s) /\ t[n].untried_actions = <<>>
    THEN LET values == t[n].child_nodes
             keys == [i \in 1..Len(values) |->
                         ucb_modified(t, values[i].child, n, identity)]
             best_child == values[MaxFirst(keys)].child
         IN  TraverseWalk(t, best_child,
                 next_state(s, t[best_child].parent_action), identity)
    ELSE [node |-> n, state |-> s]

\* slip: the state the call was given is returned with the selected node
traverse_nodes_stale_state(t, n, s, identity) ==
    [node |-> TraverseWalk(t, n, s, identity).node, state |-> s]

\* slip: descends whenever the node has children, untried actions or not
RECURSIVE traverse_nodes_eager(_, _, _, _)
traverse_nodes_eager(t, n, s, identity) ==
    IF ~is_ended(s) /\ t[n].child_nodes # <<>>
    THEN LET values == t[n].child_nodes
             keys == [i \in 1..Len(values) |->
                         ucb_modified(t, values[i].child, n, identity)]
             best_child == values[MaxFirst(keys)].child
         IN  traverse_nodes_eager(t, best_child,
                 next_state(s, t[best_child].parent_action), identity)
    ELSE [node |-> n, state |-> s]

RECURSIVE traverse_nodes_modified(_, _, _, _)
traverse_nodes_modified(t, n, s, identity) ==
    IF ~is_ended(s) /\ t[n].untried_actions = <<>>
    THEN LET values == t[n].child_nodes
             keys == [i \in 1..Len(values) |->
                         ucb_modified(t, values[i].child, n, identity)]
             best_child == values[MaxFirst(keys)].child
         IN  traverse_nodes_modified(t, best_child,
                 next_state(s, t[best_child].parent_action), identity)
    ELSE [node |-> n, state |-> s]

\* the for loop over node.child_nodes.items() from item i on
RECURSIVE BestChildLoop(_, _, _, _, _, _)
BestChildLoop(t, n, identity, i, best_child, best_ucb) ==
    IF i > Len(t[n].child_nodes) THEN best_child
    ELSE LET child == t[n].child_nodes[i].child
             child_ucb == ucb_vanilla(t, child, n, identity)
         IN  IF child_ucb > best_ucb
             THEN BestChildLoop(t, n, identity, i + 1, child, child_ucb)
             ELSE BestChildLoop(t, n, identity, i + 1, best_child, best_ucb)

RECURSIVE traverse_nodes_vanilla(_, _, _, _)
traverse_nodes_vanilla(t, n, s, identity) ==
    IF is_ended(s) \/ Len(t[n].untried_actions) > 0
    THEN [node |-> n, state |-> s]
    ELSE LET best_child == BestChildLoop(t, n, identity, 1, None, NegInf)
         IN  traverse_nodes_vanilla(t, best_child,
                 next_state(s, t[best_child].parent_action), identity)

traverse_nodes(v, t, n, s, identity) ==
    IF v = "modified" THEN traverse_nodes_modified(t, n, s, identity)
                      ELSE traverse_nodes_vanilla(t, n, s, identity)

\* ---------------------------------------------------------- expand_leaf
\* slip: the chosen action stays in untried_actions
expand_leaf_no_remove(t, n, s, i) ==
    IF is_ended(s) \/ t[n].untried_actions = <<>>
    THEN [tree |-> t, node |-> n, state |-> s]
    ELSE LET action == t[n].untried_actions[i]
             next == next_state(s, action)
             child_node == Len(t) + 1
             t2 == Append(t, MCTSNode(n, action, legal_actions(next)))
             t3 == [t2 EXCEPT ![n].child_nodes = DictSet(@, action, child_node)]
         IN  [tree |-> t3, node |-> child_node, state |-> next]

\* i is the index choice() draws in node.untried_actions
expand_leaf(t, n, s, i) ==
    IF is_ended(s) \/ t[n].untried_actions = <<>>
    THEN [tree |-> t, node |-> n, state |-> s]
    ELSE LET action == t[n].untried_actions[i]
             next == next_state(s, action)
             child_node == Len(t) + 1
             t1 == [t EXCEPT ![n].untried_actions = ListRemove(@, action)]
             t2 == Append(t1, MCTSNode(n, action, legal_actions(next)))
             t3 == [t2 EXCEPT ![n].child_nodes = DictSet(@, action, child_node)]
         IN  [tree |-> t3, node |-> child_node, state |-> next]

\* -------------------------------------------------------------- rollout
\* the set of states rollout can return, over every outcome of choice()
Truthy(x) == x # None

RECURSIVE rollout_modified(_)
rollout_modified(s) ==
    IF is_ended(s) THEN {s}
    ELSE LET legal_moves == legal_actions(s)
             ending == {i \in 1..Len(legal_moves) :
                           is_ended(next_state(s, legal_moves[i]))}
             winning_move ==
                 IF ending = {} THEN None
                 ELSE legal_moves[CHOOSE i \in ending : \A j \in ending : i <= j]
             actions == IF Truthy(winning_move) THEN {winning_move}
                        ELSE {legal_moves[i] : i \in 1..Len(legal_moves)}
         IN  UNION {rollout_modified(next_state(s, a)) : a \in actions}

RECURSIVE rollout_vanilla(_)
rollout_vanilla(s) ==
    IF is_ended(s) THEN {s}
    ELSE LET legal_moves == legal_actions(s)
             winning == {i \in 1..Len(legal_moves) :
                 /\ is_ended(next_state(s, legal_moves[i]))
                 /\ points_values(next_state(s, legal_moves[i]))[current_player(s)] = 1}
         IN  IF winning # {}
             THEN {next_state(s, legal_moves[CHOOSE i \in winning :
                                                 \A j \in winning : i <= j])}
             ELSE UNION {rollout_vanilla(next_state(s, legal_moves[i])) :
                             i \in 1..Len(legal_moves)}

rollout(v, s) ==
    IF v = "modified" THEN rollout_modified(s) ELSE rollout_vanilla(s)

\* -------------------------------------------------------- backpropagate
\* the climb of backpropagate, as the slip below uses it
RECURSIVE BackpropagateClimb(_, _, _)
BackpropagateClimb(t, n, won) ==
    IF n = None THEN t
    ELSE BackpropagateClimb([t EXCEPT ![n].visits = @ + 1, ![n].wins = @ + won],
                            t[n].parent, won)

\* slip: node = node.parent runs before the first update, so the node the
\* simulation ended at is not counted
backpropagate_skip_leaf(t, n, won) ==
    IF n = None THEN t ELSE BackpropagateClimb(t, t[n].parent, won)

RECURSIVE backpropagate(_, _, _)
backpropagate(t, n, won) ==
    IF n = None THEN t
    ELSE backpropagate([t EXCEPT ![n].visits = @ + 1, ![n].wins = @ + won],
                       t[n].parent, won)

\* the value think hands to backpropagate, in half points
bot_score_modified(points, identity) ==
    2 * (IF identity \in DOMAIN points THEN points[identity] ELSE 0)

bot_score_vanilla(points, identity) ==
    IF points[identity] = 1 THEN 2
    ELSE IF points[identity] = 0 - 1 THEN 0
    ELSE 1

bot_score(v, points, identity) ==
    IF v = "modified" THEN bot_score_modified(points, identity)
                      ELSE bot_score_vanilla(points, identity)

\* ------------------------------------------------------ get_best_action
\* slip: item[1], the child, is returned in place of item[0], the action
get_best_action_child(t, n) ==
    LET items == t[n].child_nodes
        keys == [i \in 1..Len(items) |-> t[items[i].child].visits]
    IN  items[MaxFirst(keys)].child

\* slip: min in place of max
get_best_action_min(t, n) ==
    LET items == t[n].child_nodes
    IN  items[CHOOSE i \in 1..Len(items) : \A j \in 1..Len(items) :
                  t[items[i].child].visits <= t[items[j].child].visits].action

get_best_action_modified(t, n) ==
    LET items == t[n].child_nodes
        keys == [i \in 1..Len(items) |-> t[items[i].child].visits]
    IN  items[MaxFirst(keys)].action

RECURSIVE BestScoreLoop(_, _, _, _, _)
BestScoreLoop(t, n, i, best_action_, best_score) ==
    IF i > Len(t[n].child_nodes) THEN best_action_
    ELSE LET action == t[n].child_nodes[i].action
             child == t[t[n].child_nodes[i].child]
         IN  IF child.visits = 0
             THEN BestScoreLoop(t, n, i + 1, best_action_, best_score)
             ELSE LET score == WinRate(child) + VisitBonus[child.visits]
                  IN  IF score > best_score
                      THEN BestScoreLoop(t, n, i + 1, action, score)
                      ELSE BestScoreLoop(t, n, i + 1, best_action_, best_score)

get_best_action_vanilla(t, n) ==
    LET found == BestScoreLoop(t, n, 1, None, NegInf)
    IN  IF found = None THEN get_best_action_modified(t, n) ELSE found

get_best_action(v, t, n) ==
    IF v = "modified" THEN get_best_action_modified(t, n)
                      ELSE get_best_action_vanilla(t, n)

\* ---------------------------------------------------------------- think
Init ==
    /\ variant \in {"modified", "vanilla"}
    /\ state \in {s \in BoardStates : ~is_ended(s)}
    /\ num_nodes \in 1..MaxNodes
    /\ identity_of_bot = current_player(state)
    /\ tree = <<MCTSNode(None, None, legal_actions(state))>>
    /\ node = root_node
    /\ current_state = state
    /\ final_state = state
    /\ iter = 0
    /\ pc = "select"
    /\ best_action = None
    /\ started = <<0>>

\* Selection: node, current_state = traverse_nodes(root_node, board, state, ...)
Select ==
    /\ pc = "select"
    /\ LET r == traverse_nodes(variant, tree, root_node, state, identity_of_bot)
       IN  /\ node' = r.node
           /\ current_state' = r.state
    /\ pc' = "expand"
    /\ UNCHANGED <<variant, state, num_nodes, identity_of_bot, tree,
                   final_state, iter, best_action, started>>

\* Expansion, skipped when current_state is ended
Expand ==
    /\ pc = "expand"
    /\ IF is_ended(current_state)
       THEN UNCHANGED <<tree, node, current_state, started>>
       ELSE \E i \in (IF tree[node].untried_actions = <<>> THEN {0}
                      ELSE 1..Len(tree[node].untried_actions)) :
              LET r == expand_leaf(tree, node, current_state, i)
              IN  /\ tree' = r.tree
                  /\ node' = r.node
                  /\ current_state' = r.state
                  /\ started' = [n \in 1..Len(r.tree) |->
                                    IF n <= Len(started) THEN started[n] ELSE 0]
    /\ pc' = "rollout"
    /\ UNCHANGED <<variant, state, num_nodes, identity_of_bot, final_state,
                   iter, best_action>>

\* Simulation
Rollout ==
    /\ pc = "rollout"
    /\ final_state' \in rollout(variant, current_state)
    /\ pc' = "backpropagate"
    /\ UNCHANGED <<variant, state, num_nodes, identity_of_bot, tree, node,
                   current_state, iter, best_action, started>>

\* Backpropagation of the outcome, and the end of one loop iteration
Backpropagate ==
    /\ pc = "backpropagate"
    /\ tree' = backpropagate(tree, node,
                   bot_score(variant, points_values(final_state), identity_of_bot))
    /\ started' = [started EXCEPT ![node] = @ + 1]
    /\ iter' = iter + 1
    /\ pc' = IF iter + 1 < num_nodes THEN "select" ELSE "best"
    /\ UNCHANGED <<variant, state, num_nodes, identity_of_bot, node,
                   current_state, final_state, best_action>>

\* return get_best_action(root_node)
GetBestAction ==
    /\ pc = "best"
    /\ best_action' = get_best_action(variant, tree, root_node)
    /\ pc' = "done"
    /\ UNCHANGED <<variant, state, num_nodes, identity_of_bot, tree, node,
                   current_state, final_state, iter, started>>

Next == Select \/ Expand \/ Rollout \/ Backpropagate \/ GetBestAction

Spec == Init /\ [][Next]_vars

TypeOK ==
    /\ pc \in {"select", "expand", "rollout", "backpropagate", "best", "done"}
    /\ node \in 1..Len(tree)
    /\ Len(started) = Len(tree)
    /\ iter \in 0..num_nodes

\* =============================================================== claims
Nodes == 1..Len(tree)
Children(n) == {tree[n].child_nodes[i].child : i \in 1..Len(tree[n].child_nodes)}
ChildKeys(n) == {tree[n].child_nodes[i].action : i \in 1..Len(tree[n].child_nodes)}
Untried(n) == {tree[n].untried_actions[i] : i \in 1..Len(tree[n].untried_actions)}

\* sum of visits over child_nodes[1..i] of n
RECURSIVE SumChildVisits(_, _)
SumChildVisits(n, i) ==
    IF i = 0 THEN 0
    ELSE tree[tree[n].child_nodes[i].child].visits + SumChildVisits(n, i - 1)

\* the proper ancestors of n
RECURSIVE Ancestors(_)
Ancestors(n) ==
    IF tree[n].parent = None THEN {}
    ELSE {tree[n].parent} \cup Ancestors(tree[n].parent)

\* the board state reached by the actions on the path from the root to n
RECURSIVE StateAt(_)
StateAt(n) ==
    IF tree[n].parent = None THEN state
    ELSE next_state(StateAt(tree[n].parent), tree[n].parent_action)

\* backpropagations begun at n or below it: those whose path passes through n
RECURSIVE SumStarted(_)
SumStarted(ns) ==
    IF ns = {} THEN 0
    ELSE LET m == CHOOSE x \in ns : TRUE IN started[m] + SumStarted(ns \ {m})

PassedThrough(n) == SumStarted({m \in Nodes : m = n \/ n \in Ancestors(m)})

\* no iteration is under way
BetweenIterations == pc \in {"select", "best", "done"}

\* the node and state the selection of the next iteration returns
Selected == traverse_nodes(variant, tree, root_node, state, identity_of_bot)

\* a legal action of s ends the game with the player to move at s scoring 1
OnePlyFromWin(s) ==
    /\ ~is_ended(s)
    /\ \E i \in 1..Len(legal_actions(s)) :
           LET next == next_state(s, legal_actions(s)[i])
           IN  is_ended(next) /\ points_values(next)[current_player(s)] = 1

\* C1: after any number of completed iterations every node's visits is the
\* sum of its children's visits plus the number of backpropagations that
\* started at the node itself.
ThmC1 ==
    BetweenIterations =>
        \A n \in Nodes :
            tree[n].visits = SumChildVisits(n, Len(tree[n].child_nodes)) + started[n]

\* an inner node that simulations ended at before and below it
WitC1 ==
    /\ BetweenIterations
    /\ \E n \in Nodes : /\ started[n] >= 1
                        /\ SumChildVisits(n, Len(tree[n].child_nodes)) >= 1
    /\ \E n \in Nodes : started[n] >= 2

\* C2: for every node, child_nodes and untried_actions together have as many
\* entries as the node's state has legal actions, and no key of child_nodes
\* is in untried_actions.
ThmC2 ==
    \A n \in Nodes :
        /\ Len(tree[n].child_nodes) + Len(tree[n].untried_actions)
               = Len(legal_actions(StateAt(n)))
        /\ ChildKeys(n) \cap Untried(n) = {}

\* expand_leaf has acted twice on a node that still has an untried action
WitC2 ==
    \E n \in Nodes : /\ Len(tree[n].child_nodes) >= 2
                     /\ Len(tree[n].untried_actions) >= 1

\* C3: a rollout from a state one ply from a win of the player to move
\* returns an ended state which that player has won.
CexC3 ==
    (pc = "backpropagate" /\ OnePlyFromWin(current_state)) =>
        /\ is_ended(final_state)
        /\ points_values(final_state)[current_player(current_state)] = 1

\* C4: the outcome given to backpropagate is 1 for a win of the searching
\* identity, 0 for a loss and 0.5 for a draw (2, 0 and 1 half points), and
\* so every node keeps 0 <= wins <= visits.
CexC4 ==
    [][pc = "backpropagate" =>
          /\ tree'[node].wins - tree[node].wins =
                 (LET p == points_values(final_state)[identity_of_bot]
                  IN  IF p = 1 THEN 2 ELSE IF p = 0 - 1 THEN 0 ELSE 1)
          /\ \A n \in Nodes :
                 0 <= tree'[n].wins /\ tree'[n].wins <= 2 * tree'[n].visits]_vars

\* C5: when the selection scores the visited children of a node, the win
\* rate is inverted exactly when the player to move at that node's state is
\* not the searching identity.
CexC5 ==
    pc = "select" =>
        \A p \in Ancestors(Selected.node) :
            \A c \in Children(p) :
                tree[c].visits > 0 =>
                    ((IF variant = "modified"
                      THEN opponent_turn_modified(tree, p, identity_of_bot)
                      ELSE opponent_turn_vanilla(tree, p, identity_of_bot))
                     <=> current_player(StateAt(p)) # identity_of_bot)

\* C6: the selection returns a node whose state is ended or that has an
\* untried action, with the state its path from the root leads to, and
\* changes no node.
ThmC6 ==
    [][(pc = "select" /\ pc' = "expand") =>
          /\ tree' = tree
          /\ is_ended(current_state') \/ tree[node'].untried_actions # <<>>
          /\ current_state' = StateAt(node')]_vars

\* the selection has walked two levels down to a node of an ended state
WitC6 ==
    /\ pc = "expand"
    /\ Cardinality(Ancestors(node)) >= 2
    /\ is_ended(current_state)

\* C7: from a state with exactly one legal action think returns that action.
ThmC7 ==
    (pc = "done" /\ Len(legal_actions(state)) = 1) =>
        best_action = legal_actions(state)[1]

WitC7 ==
    /\ pc = "done"
    /\ Len(legal_actions(state)) = 1
    /\ num_nodes >= 2
    /\ best_action = 11

\* C8: in the max-visits variant the action returned is a key of the root's
\* child_nodes whose child has at least the visits of every other child.
ThmC8 ==
    (pc = "done" /\ variant = "modified") =>
        \E i \in 1..Len(tree[root_node].child_nodes) :
            /\ tree[root_node].child_nodes[i].action = best_action
            /\ \A c \in Children(root_node) :
                   tree[tree[root_node].child_nodes[i].child].visits >= tree[c].visits

\* the root's first child is not its most visited one
WitC8 ==
    /\ pc = "done"
    /\ variant = "modified"
    /\ \E c \in Children(root_node) :
           tree[c].visits > tree[tree[root_node].child_nodes[1].child].visits

\* C9 as stated: after completed iterations a node has visits 0 exactly when
\* no backpropagation started at that node.
CexC9 ==
    BetweenIterations =>
        \A n \in Nodes : (tree[n].visits = 0) <=> (started[n] = 0)

\* C9 amended: a node has visits 0 exactly when no backpropagation passed
\* through it, that is, started at the node or at one of its descendants.
ThmC9 ==
    \A n \in Nodes : (tree[n].visits = 0) <=> (PassedThrough(n) = 0)

\* a fresh child not yet counted, under a root no simulation ended at
WitC9 ==
    /\ pc = "rollout"
    /\ tree[node].visits = 0
    /\ tree[root_node].visits >= 1
    /\ started[root_node] = 0

\* C10: no child of a node has 2 or more visits before every legal action of
\* the node is a child with at least 1 visit; and the selection never passes
\* over a child with visits 0 for a visited one.
ThmC10 ==
    /\ \A n \in Nodes :
           (\E c \in Children(n) : tree[c].visits >= 2) =>
               /\ tree[n].untried_actions = <<>>
               /\ Len(tree[n].child_nodes) = Len(legal_actions(StateAt(n)))
               /\ \A c \in Children(n) : tree[c].visits >= 1
    /\ pc = "select" =>
           \A c \in Ancestors(Selected.node) \cup {Selected.node} :
               (c # root_node /\ tree[c].visits > 0) =>
                   \A d \in Children(tree[c].parent) : tree[d].visits > 0

\* a child is revisited under a node with several children
WitC10 ==
    \E n \in Nodes :
        /\ Len(tree[n].child_nodes) >= 2
        /\ \E c \in Children(n) : tree[c].visits >= 2

====
